---------------------------- MODULE Spec2Model ----------------------------
(***************************************************************************)
(* Model of MinesweeperAI (src/minesweeper.py): the knowledge base of      *)
(* sentences, the sets safes / mines / moves_made, add_knowledge with its  *)
(* fixed-point loop, and move selection.  all_moves is the attribute        *)
(* self.all_possible_moves, the set built once by __init__.                *)
(*                                                                         *)
(* The AI's mutable fields that the helper methods touch travel through    *)
(* the operators as one record                                             *)
(*     [safes, mines, knowledge, KB_has_changed]                           *)
(* so that every Python statement that mutates self becomes a function     *)
(* from such a record to the next one, applied in the order of the code.   *)
(* knowledge is a sequence of sentences [cells, count]; a Python reference *)
(* to a stored sentence is its index in that sequence (the list is only    *)
(* ever appended to, so indices are stable).                               *)
(***************************************************************************)
EXTENDS Integers, Sequences, FiniteSets, TLC

VARIABLES board, moves_made, safes, mines, knowledge, KB_has_changed,
          all_moves, pc, calls, passes, ret

vars == <<board, moves_made, safes, mines, knowledge, KB_has_changed,
          all_moves, pc, calls, passes, ret>>

(***************************************************************************)
(* Grid and bounds.                                                        *)
(***************************************************************************)
\* MinesweeperAI(height, width): the grid of the end-to-end scenario.
Height == 3
Width == 3

\* Largest number of mines on a board.
MaxMines == 2
\* Largest number of add_knowledge calls in one run.
MaxCalls == 3
\* Largest number of passes of the `while` loop followed within one call.
MaxPasses == 6
\* Longest knowledge list from which a further pass of the loop is followed:
\* with clues that are not truthful the loop can add sentences without end.
MaxKnowledge == 10
\* When clues need not be truthful: the largest count handed to
\* add_knowledge, and the largest number of calls in one run.
MaxCount == 3
MaxCallsAny == 2
\* When the public methods are called directly: the largest number of
\* add_knowledge calls in one run.
MaxCallsApi == 1

Cells == (0 .. Height - 1) \X (0 .. Width - 1)

\* MinesweeperAI.all_possible_moves
all_possible_moves == {<<i, j>> : i \in 0 .. Height - 1, j \in 0 .. Width - 1}

\* MinesweeperAI.neighbors: the cells within one row and column of cell,
\* clipped to the grid, cell itself left out.
neighbors(cell) ==
    {<<i, j>> : i \in (cell[1] - 1) .. (cell[1] + 1),
                j \in (cell[2] - 1) .. (cell[2] + 1)}
    \cap {c \in (0 .. Height - 1) \X (0 .. Width - 1) : c # cell}

\* Minesweeper.nearby_mines: the clue the board gives for cell.
nearby_mines(b, cell) == Cardinality(neighbors(cell) \cap b)

(***************************************************************************)
(* Call by value.  Python evaluates an argument once, before the call, and *)
(* a local variable once, when it is assigned.  The loops below do the     *)
(* same: each round takes the values of its arguments, as the one element  *)
(* of a set                                                                *)
(*     The({ body : a \in {a0} })                                          *)
(* so that a value is computed once however often the body uses it.        *)
(***************************************************************************)
The(S) == CHOOSE r \in S : TRUE

(***************************************************************************)
(* Sentence.                                                               *)
(***************************************************************************)
Sentence(cells, count) == [cells |-> cells, count |-> count]

\* self.empty = Sentence(set(), 0)
empty == Sentence({}, 0)

\* Python's Optional results: None, or a value.
None == [none |-> TRUE, v |-> {}]
Some(x) == [none |-> FALSE, v |-> x]
\* `if x:` for x a set or None: None and the empty set are false.
Truthy(o) == ~o.none /\ o.v # {}

\* Sentence.known_mines
known_mines(s) == IF Cardinality(s.cells) = s.count THEN Some(s.cells) ELSE None

\* Sentence.known_safes
known_safes(s) == IF s.count = 0 THEN Some(s.cells) ELSE None

\* Variant of Sentence.mark_mine that forgets `self.count -= 1`.
Sentence_mark_mine_keeps_count(s, cell) ==
    IF cell \in s.cells
    THEN [cells |-> s.cells \ {cell}, count |-> s.count]
    ELSE s

\* Sentence.mark_mine
Sentence_mark_mine(s, cell) ==
    IF cell \in s.cells
    THEN [cells |-> s.cells \ {cell}, count |-> s.count - 1]
    ELSE s

\* Sentence.mark_safe
Sentence_mark_safe(s, cell) ==
    IF cell \in s.cells
    THEN [cells |-> s.cells \ {cell}, count |-> s.count]
    ELSE s

(***************************************************************************)
(* MinesweeperAI: marking.                                                 *)
(***************************************************************************)
\* MinesweeperAI.mark_mine
mark_mine(a, cell) ==
    IF cell \notin a.mines
    THEN [a EXCEPT !.mines = @ \cup {cell},
                   !.KB_has_changed = TRUE,
                   !.knowledge = [i \in DOMAIN @ |-> Sentence_mark_mine(@[i], cell)]]
    ELSE [a EXCEPT !.KB_has_changed = FALSE]

\* Variant of MinesweeperAI.mark_safe that overwrites: a cell held as a
\* mine is taken out of mines and put in safes.
mark_safe_overwrites(a, cell) ==
    [a EXCEPT !.safes = @ \cup {cell},
              !.mines = @ \ {cell},
              !.KB_has_changed = TRUE,
              !.knowledge = [i \in DOMAIN @ |-> Sentence_mark_safe(@[i], cell)]]

\* Variant of MinesweeperAI.mark_safe without the test `cell not in self.mines`.
mark_safe_unguarded(a, cell) ==
    [a EXCEPT !.safes = @ \cup {cell},
              !.KB_has_changed = TRUE,
              !.knowledge = [i \in DOMAIN @ |-> Sentence_mark_safe(@[i], cell)]]

\* MinesweeperAI.mark_safe
mark_safe(a, cell) ==
    IF cell \notin a.mines
    THEN [a EXCEPT !.safes = @ \cup {cell},
                   !.KB_has_changed = TRUE,
                   !.knowledge = [i \in DOMAIN @ |-> Sentence_mark_safe(@[i], cell)]]
    ELSE [a EXCEPT !.KB_has_changed = FALSE]

\* MinesweeperAI.mark_safes: `for a in new_safes`, in the set's iteration
\* order (some order; CHOOSE fixes one).  The set iterated is the object
\* handed in: Sentence.mark_safe rebinds s.cells to a copy, it never
\* mutates the set being iterated.
RECURSIVE mark_safes(_, _)
mark_safes(a0, new_safes0) ==
    The({ IF new_safes = {} THEN a
          ELSE LET c == CHOOSE x \in new_safes : TRUE
               IN  mark_safes(IF c \notin a.safes THEN mark_safe(a, c) ELSE a,
                              new_safes \ {c})
          : a \in {a0}, new_safes \in {new_safes0} })

\* MinesweeperAI.mark_mines
RECURSIVE mark_mines(_, _)
mark_mines(a0, new_mines0) ==
    The({ IF new_mines = {} THEN a
          ELSE LET m == CHOOSE x \in new_mines : TRUE
               IN  mark_mines(IF m \notin a.mines THEN mark_mine(a, m) ELSE a,
                              new_mines \ {m})
          : a \in {a0}, new_mines \in {new_mines0} })

(***************************************************************************)
(* MinesweeperAI: sentences.                                               *)
(***************************************************************************)
\* Variant of MinesweeperAI.clean_up that forgets `count -= 1` for the
\* cells already known to be mines.
clean_up_keeps_count(a, cells, count) ==
    LET trans_cells == {c \in cells : c \notin a.safes /\ c \notin a.mines}
    IN  IF trans_cells # {}
        THEN IF count = 0
             THEN [a |-> mark_safes(a, trans_cells), sentence |-> None]
             ELSE IF Cardinality(trans_cells) = count
             THEN [a |-> mark_mines(a, trans_cells), sentence |-> None]
             ELSE [a |-> a, sentence |-> Some(Sentence(trans_cells, count))]
        ELSE [a |-> a, sentence |-> None]

\* Variant of MinesweeperAI.clean_up without the `if count == 0` branch: a
\* sentence with count 0 is returned instead of its cells being marked.
clean_up_no_zero(a, cells, count) ==
    LET trans_cells == {c \in cells : c \notin a.safes /\ c \notin a.mines}
        cnt == count - Cardinality({c \in cells : c \notin a.safes /\ c \in a.mines})
    IN  IF trans_cells # {}
        THEN IF Cardinality(trans_cells) = cnt
             THEN [a |-> mark_mines(a, trans_cells), sentence |-> None]
             ELSE [a |-> a, sentence |-> Some(Sentence(trans_cells, cnt))]
        ELSE [a |-> a, sentence |-> None]

\* Variant of MinesweeperAI.clean_up without the
\* `elif len(trans_cells) == count` branch: the sentence is returned
\* instead of its cells being marked as mines.
clean_up_no_full(a, cells, count) ==
    LET trans_cells == {c \in cells : c \notin a.safes /\ c \notin a.mines}
        cnt == count - Cardinality({c \in cells : c \notin a.safes /\ c \in a.mines})
    IN  IF trans_cells # {}
        THEN IF cnt = 0
             THEN [a |-> mark_safes(a, trans_cells), sentence |-> None]
             ELSE [a |-> a, sentence |-> Some(Sentence(trans_cells, cnt))]
        ELSE [a |-> a, sentence |-> None]

\* MinesweeperAI.clean_up: returns the AI after the marks it makes and the
\* sentence it returns (None or a Sentence).  A cell in safes is discarded
\* without touching count; otherwise a cell in mines is discarded and
\* count decremented.
clean_up(a, cells, count) ==
    LET trans_cells == {c \in cells : c \notin a.safes /\ c \notin a.mines}
        cnt == count - Cardinality({c \in cells : c \notin a.safes /\ c \in a.mines})
    IN  IF trans_cells # {}
        THEN IF cnt = 0
             THEN [a |-> mark_safes(a, trans_cells), sentence |-> None]
             ELSE IF Cardinality(trans_cells) = cnt
             THEN [a |-> mark_mines(a, trans_cells), sentence |-> None]
             ELSE [a |-> a, sentence |-> Some(Sentence(trans_cells, cnt))]
        ELSE [a |-> a, sentence |-> None]

\* MinesweeperAI.in_knowledge: any(list(filter(lambda s: sentence.__eq__(s),
\* knowledge))).  For a Sentence this is membership by (cells, count).  For
\* None, None.__eq__(s) is NotImplemented, which filter takes as true, so
\* every stored sentence passes and the result is true iff knowledge is
\* not empty.
in_knowledge(a, o) ==
    IF o.none
    THEN Len(a.knowledge) > 0
    ELSE \E i \in DOMAIN a.knowledge : a.knowledge[i] = o.v

\* Variant of MinesweeperAI.add_if_new that appends without looking the
\* sentence up in knowledge.
add_if_new_always(a, o) ==
    IF o.none THEN a
    ELSE [a EXCEPT !.KB_has_changed = TRUE, !.knowledge = Append(@, o.v)]

\* Variant of MinesweeperAI.add_if_new that forgets to raise KB_has_changed.
add_if_new_silent(a, o) ==
    IF Len(a.knowledge) = 0 \/ ~in_knowledge(a, o)
    THEN [a EXCEPT !.knowledge = Append(@, o.v)]
    ELSE a

\* MinesweeperAI.add_if_new.  The first branch (empty knowledge) is only
\* ever entered from add_new_sentence, which has checked `if sentence`.
add_if_new(a, o) ==
    IF Len(a.knowledge) = 0 \/ ~in_knowledge(a, o)
    THEN [a EXCEPT !.KB_has_changed = TRUE, !.knowledge = Append(@, o.v)]
    ELSE a

\* MinesweeperAI.add_new_sentence
add_new_sentence(a, cell, count) ==
    LET r == clean_up(a, neighbors(cell), count)
    IN  IF ~r.sentence.none THEN add_if_new(r.a, r.sentence) ELSE r.a

\* Variant of MinesweeperAI.mark_additional_cells that tests
\* `new_mines is not None` in place of `if new_mines`: an emptied sentence
\* (no cells, count 0) then raises KB_has_changed on every pass.
RECURSIVE mark_additional_from_not_none(_, _)
mark_additional_from_not_none(a0, i0) ==
    The({ IF i > Len(a.knowledge) THEN a
          ELSE LET s == a.knowledge[i]
                   new_mines == known_mines(s)
                   new_safes == known_safes(s)
               IN  mark_additional_from_not_none(
                       IF ~new_mines.none
                       THEN mark_mines([a EXCEPT !.KB_has_changed = TRUE], new_mines.v)
                       ELSE IF Truthy(new_safes)
                       THEN mark_safes([a EXCEPT !.KB_has_changed = TRUE], new_safes.v)
                       ELSE a,
                       i + 1)
          : a \in {a0}, i \in {i0} })

\* Variant of MinesweeperAI.mark_additional_cells without the
\* `elif new_safes` branch: sentences with count 0 are left alone.
RECURSIVE mark_additional_from_mines_only(_, _)
mark_additional_from_mines_only(a0, i0) ==
    The({ IF i > Len(a.knowledge) THEN a
          ELSE LET s == a.knowledge[i]
                   new_mines == known_mines(s)
               IN  mark_additional_from_mines_only(
                       IF Truthy(new_mines)
                       THEN mark_mines([a EXCEPT !.KB_has_changed = TRUE], new_mines.v)
                       ELSE a,
                       i + 1)
          : a \in {a0}, i \in {i0} })

\* MinesweeperAI.mark_additional_cells: `for s in self.knowledge`, by index;
\* each sentence is read when the loop reaches it, after the marks made for
\* the sentences before it.
RECURSIVE mark_additional_from(_, _)
mark_additional_from(a0, i0) ==
    The({ IF i > Len(a.knowledge) THEN a
          ELSE LET s == a.knowledge[i]
                   new_mines == known_mines(s)
                   new_safes == known_safes(s)
               IN  mark_additional_from(
                       IF Truthy(new_mines)
                       THEN mark_mines([a EXCEPT !.KB_has_changed = TRUE], new_mines.v)
                       ELSE IF Truthy(new_safes)
                       THEN mark_safes([a EXCEPT !.KB_has_changed = TRUE], new_safes.v)
                       ELSE a,
                       i + 1)
          : a \in {a0}, i \in {i0} })

mark_additional_cells(a) == mark_additional_from(a, 1)

\* MinesweeperAI.is_not_empty
is_not_empty(s) == s # empty

\* MinesweeperAI.are_identicals
are_identicals(s1, s2) == s1 = s2

\* MinesweeperAI.unique_pairs: combinations(filter(is_not_empty, knowledge), 2)
\* without the identical pairs, as the list of index pairs <<i, j>>, i < j,
\* in the order combinations yields them.
RECURSIVE unique_pairs_from(_, _, _)
unique_pairs_from(a, i, j) ==
    IF i >= Len(a.knowledge) THEN <<>>
    ELSE IF j > Len(a.knowledge) THEN unique_pairs_from(a, i + 1, i + 2)
    ELSE (IF /\ is_not_empty(a.knowledge[i])
             /\ is_not_empty(a.knowledge[j])
             /\ ~are_identicals(a.knowledge[i], a.knowledge[j])
          THEN <<(<<i, j>>)>> ELSE <<>>)
         \o unique_pairs_from(a, i, j + 1)

unique_pairs(a) == unique_pairs_from(a, 1, 2)

\* Variant of MinesweeperAI.add_inferred_sentence without the `elif`
\* branch: only a first sentence inside the second one is used.
RECURSIVE add_inferred_from_one_way(_, _, _)
add_inferred_from_one_way(a0, pairs0, k0) ==
    The({ IF k > Len(pairs) THEN a
          ELSE LET s1 == a.knowledge[pairs[k][1]]
                   s2 == a.knowledge[pairs[k][2]]
               IN  IF s1.cells \subseteq s2.cells /\ s1.cells # s2.cells
                   THEN The({ add_inferred_from_one_way(
                                  add_if_new(sent1.a, sent1.sentence), pairs, k + 1)
                              : sent1 \in {clean_up(a, s2.cells \ s1.cells,
                                                    s2.count - s1.count)} })
                   ELSE add_inferred_from_one_way(a, pairs, k + 1)
          : a \in {a0}, pairs \in {pairs0}, k \in {k0} })

\* MinesweeperAI.add_inferred_sentence: the pairs are fixed before the
\* loop; s1 and s2 are the stored objects, read as they are when their pair
\* is reached (clean_up may have shrunk them meanwhile).
RECURSIVE add_inferred_from(_, _, _)
add_inferred_from(a0, pairs0, k0) ==
    The({ IF k > Len(pairs) THEN a
          ELSE LET s1 == a.knowledge[pairs[k][1]]
                   s2 == a.knowledge[pairs[k][2]]
               IN  IF s1.cells \subseteq s2.cells /\ s1.cells # s2.cells
                   THEN The({ add_inferred_from(
                                  add_if_new(sent1.a, sent1.sentence), pairs, k + 1)
                              : sent1 \in {clean_up(a, s2.cells \ s1.cells,
                                                    s2.count - s1.count)} })
                   ELSE IF s2.cells \subseteq s1.cells /\ s1.cells # s2.cells
                   THEN The({ add_inferred_from(
                                  add_if_new(sent2.a, sent2.sentence), pairs, k + 1)
                              : sent2 \in {clean_up(a, s1.cells \ s2.cells,
                                                    s1.count - s2.count)} })
                   ELSE add_inferred_from(a, pairs, k + 1)
          : a \in {a0}, pairs \in {pairs0}, k \in {k0} })

add_inferred_sentence(a0) ==
    The({ add_inferred_from(a, unique_pairs(a), 1) : a \in {a0} })

(***************************************************************************)
(* add_knowledge.                                                          *)
(***************************************************************************)
\* The AI's fields as one record.
AI == [safes |-> safes, mines |-> mines, knowledge |-> knowledge,
       KB_has_changed |-> KB_has_changed]

\* MinesweeperAI.add_knowledge, steps 2) to 5): up to the `while`.
add_knowledge_head(a, cell, count) ==
    add_inferred_sentence(
        mark_additional_cells(
            add_new_sentence(mark_safe(a, cell), cell, count)))

\* Variant of the `while` body that lowers the flag and deduces nothing:
\* add_knowledge without its fixed-point loop.
loop_body_skip(a) == [a EXCEPT !.KB_has_changed = FALSE]

\* MinesweeperAI.add_knowledge, the body of `while self.KB_has_changed`.
loop_body(a) ==
    add_inferred_sentence(
        mark_additional_cells([a EXCEPT !.KB_has_changed = FALSE]))

\* MinesweeperAI.add_knowledge, `while self.KB_has_changed` run to its end.
RECURSIVE while_loop(_)
while_loop(a) == IF a.KB_has_changed THEN while_loop(loop_body(a)) ELSE a

\* MinesweeperAI.add_knowledge as one function of the AI (moves_made apart).
add_knowledge(a, cell, count) == while_loop(add_knowledge_head(a, cell, count))

\* The AI's fields after a step (the record is computed once).
SetAI(a0) ==
    \E a \in {a0} :
        /\ safes' = a.safes
        /\ mines' = a.mines
        /\ knowledge' = a.knowledge
        /\ KB_has_changed' = a.KB_has_changed

\* MinesweeperAI.__init__, on a board with some mines.
Init ==
    /\ board \in {b \in SUBSET Cells : Cardinality(b) <= MaxMines}
    /\ moves_made = {}
    /\ mines = {}
    /\ safes = {}
    /\ knowledge = <<>>
    /\ KB_has_changed = FALSE
    /\ all_moves = all_possible_moves
    /\ pc = "idle"
    /\ calls = <<>>
    /\ passes = 0
    /\ ret = [op |-> "init", move |-> None]

\* add_knowledge(cell, count) entered with a truthful clue: cell is in
\* bounds and not a mine, count is the board's clue for cell.  Runs steps
\* 1) to 5) and arrives at the `while`.
AddKnowledge(cell) ==
    /\ pc = "idle"
    /\ Len(calls) < MaxCalls
    /\ cell \notin board
    /\ moves_made' = moves_made \cup {cell}
    /\ SetAI(add_knowledge_head(AI, cell, nearby_mines(board, cell)))
    /\ pc' = "loop"
    /\ calls' = Append(calls, <<cell, nearby_mines(board, cell)>>)
    /\ passes' = 0
    /\ ret' = [op |-> "add_knowledge", move |-> None]
    /\ UNCHANGED <<board, all_moves>>

\* One pass of `while self.KB_has_changed`.
LoopPass ==
    /\ pc = "loop"
    /\ KB_has_changed
    /\ passes < MaxPasses
    /\ Len(knowledge) < MaxKnowledge
    /\ SetAI(loop_body(AI))
    /\ passes' = passes + 1
    /\ UNCHANGED <<board, moves_made, all_moves, pc, calls, ret>>

\* The `while` test fails: add_knowledge returns.
LoopExit ==
    /\ pc = "loop"
    /\ ~KB_has_changed
    /\ pc' = "idle"
    /\ UNCHANGED <<board, moves_made, safes, mines, knowledge, KB_has_changed,
                   all_moves, calls, passes, ret>>

\* Variant of MinesweeperAI.make_safe_move that forgets `- self.moves_made`.
make_safe_move_any ==
    IF Cardinality(safes) > 0
    THEN {Some(c) : c \in safes}
    ELSE {None}

\* MinesweeperAI.make_safe_move: safe_moves.pop() is some element.
make_safe_move ==
    LET safe_moves == safes \ moves_made
    IN  IF Cardinality(safe_moves) > 0
        THEN {Some(c) : c \in safe_moves}
        ELSE {None}

MakeSafeMove ==
    /\ pc = "idle"
    /\ \E r \in make_safe_move : ret' = [op |-> "make_safe_move", move |-> r]
    /\ UNCHANGED <<board, moves_made, safes, mines, knowledge, KB_has_changed,
                   all_moves, pc, calls, passes>>

Next ==
    \/ \E cell \in Cells : AddKnowledge(cell)
    \/ LoopPass
    \/ LoopExit
    \/ MakeSafeMove

Spec == Init /\ [][Next]_vars

\* add_knowledge on its own: make_safe_move reads the AI and writes none of
\* its fields, so it has no part in whether a call returns.
NextCalls ==
    \/ \E cell \in Cells : AddKnowledge(cell)
    \/ LoopPass
    \/ LoopExit

\* The interpreter runs a started call on: the `while` test and its body
\* are taken whenever they are enabled.
FairSpec == Init /\ [][NextCalls]_vars /\ WF_vars(LoopPass) /\ WF_vars(LoopExit)

(***************************************************************************)
(* Callers that do not keep to the board: any cell of the grid, or one     *)
(* outside it, with any count.                                             *)
(***************************************************************************)
AnyCells == Cells \cup {<<-1, 0>>}
AnyCounts == -1 .. MaxCount

InitAny ==
    /\ board = {}
    /\ moves_made = {}
    /\ mines = {}
    /\ safes = {}
    /\ knowledge = <<>>
    /\ KB_has_changed = FALSE
    /\ all_moves = all_possible_moves
    /\ pc = "idle"
    /\ calls = <<>>
    /\ passes = 0
    /\ ret = [op |-> "init", move |-> None]

\* add_knowledge(cell, count) entered with whatever the caller passes.
AddKnowledgeAny(cell, count) ==
    /\ pc = "idle"
    /\ Len(calls) < MaxCallsAny
    /\ moves_made' = moves_made \cup {cell}
    /\ SetAI(add_knowledge_head(AI, cell, count))
    /\ pc' = "loop"
    /\ calls' = Append(calls, <<cell, count>>)
    /\ passes' = 0
    /\ ret' = [op |-> "add_knowledge", move |-> None]
    /\ UNCHANGED <<board, all_moves>>

NextAny ==
    \/ \E cell \in AnyCells, count \in AnyCounts : AddKnowledgeAny(cell, count)
    \/ LoopPass
    \/ LoopExit
    \/ MakeSafeMove

SpecAny == InitAny /\ [][NextAny]_vars

(***************************************************************************)
(* The public methods called directly, in any order: add_knowledge with    *)
(* an in-bounds cell and any count of ApiCounts, mark_mine and mark_safe   *)
(* on a cell of MarkCells, make_safe_move and make_random_move.            *)
(***************************************************************************)
ApiCounts == {-1, 0, 1, 8}
MarkCells == {<<0, 0>>, <<1, 1>>}

\* add_knowledge(cell, count) called on a cell of the grid.
AddKnowledgeApi(cell, count) ==
    /\ pc = "idle"
    /\ Len(calls) < MaxCallsApi
    /\ moves_made' = moves_made \cup {cell}
    /\ SetAI(add_knowledge_head(AI, cell, count))
    /\ pc' = "loop"
    /\ calls' = Append(calls, <<cell, count>>)
    /\ passes' = 0
    /\ ret' = [op |-> "add_knowledge", move |-> None]
    /\ UNCHANGED <<board, all_moves>>

\* MinesweeperAI.mark_mine(cell) called from outside add_knowledge; ret
\* keeps the cell the call was made with.
MarkMine(cell) ==
    /\ pc = "idle"
    /\ SetAI(mark_mine(AI, cell))
    /\ ret' = [op |-> "mark_mine", move |-> Some(cell)]
    /\ UNCHANGED <<board, moves_made, all_moves, pc, calls, passes>>

\* MinesweeperAI.mark_safe(cell) called from outside add_knowledge.
MarkSafe(cell) ==
    /\ pc = "idle"
    /\ SetAI(mark_safe(AI, cell))
    /\ ret' = [op |-> "mark_safe", move |-> Some(cell)]
    /\ UNCHANGED <<board, moves_made, all_moves, pc, calls, passes>>

\* Variant of MinesweeperAI.make_random_move that forgets `- self.mines`.
make_random_move_any ==
    LET random_move == all_moves \ moves_made
    IN  IF Cardinality(random_move) > 0
        THEN {Some(c) : c \in random_move}
        ELSE {None}

\* MinesweeperAI.make_random_move: random_move is a new set (the result of
\* the two differences); random_move.pop() is some element of it.
make_random_move ==
    LET random_move == (all_moves \ moves_made) \ mines
    IN  IF Cardinality(random_move) > 0
        THEN {Some(c) : c \in random_move}
        ELSE {None}

\* Variant of make_random_move that works on self.all_possible_moves
\* itself (random_move = self.all_possible_moves; random_move -= ...):
\* the attribute loses the cells taken out and the cell popped.
MakeRandomMove_in_place ==
    /\ pc = "idle"
    /\ \E r \in make_random_move :
           /\ ret' = [op |-> "make_random_move", move |-> r]
           /\ all_moves' = ((all_moves \ moves_made) \ mines)
                           \ (IF r.none THEN {} ELSE {r.v})
    /\ UNCHANGED <<board, moves_made, safes, mines, knowledge, KB_has_changed,
                   pc, calls, passes>>

MakeRandomMove ==
    /\ pc = "idle"
    /\ \E r \in make_random_move : ret' = [op |-> "make_random_move", move |-> r]
    /\ UNCHANGED <<board, moves_made, safes, mines, knowledge, KB_has_changed,
                   all_moves, pc, calls, passes>>

NextApi ==
    \/ \E cell \in Cells, count \in ApiCounts : AddKnowledgeApi(cell, count)
    \/ LoopPass
    \/ LoopExit
    \/ \E cell \in MarkCells : MarkMine(cell)
    \/ \E cell \in MarkCells : MarkSafe(cell)
    \/ MakeSafeMove
    \/ MakeRandomMove

SpecApi == InitAny /\ [][NextApi]_vars

(***************************************************************************)
(* Properties.                                                             *)
(***************************************************************************)
\* The cells add_knowledge has been called on.
Called == {calls[i][1] : i \in DOMAIN calls}

\* The stored sentences that still have cells.
Unresolved == {i \in DOMAIN knowledge : knowledge[i].cells # {}}

\* C1 -- Soundness of deduction: under truthful clues, in every reachable
\* state (inside the loop too) every cell of mines is a mine of the board
\* and no cell of safes is one.
C1_Soundness ==
    /\ mines \subseteq board
    /\ safes \cap board = {}

\* A call has returned having deduced both a mine and a safe cell that was
\* never played.
C1_Witness ==
    /\ pc = "idle"
    /\ mines # {}
    /\ safes \ moves_made # {}

\* C2 -- Mutual exclusion: whatever cells and counts add_knowledge is given,
\* no cell is in both safes and mines, in any state.  Both sets only grow
\* while a pass runs, so a cell that were in both at some point inside a
\* pass would still be in both when the pass ends.
C2_MutualExclusion == safes \cap mines = {}

\* add_knowledge has been called on a cell the AI holds as a mine.
C2_Witness ==
    /\ Called \cap mines # {}
    /\ safes # {}

\* C3 -- Sentence invariant: under truthful clues, when add_knowledge has
\* returned every stored sentence has 0 <= count <= |cells| and no cell in
\* safes or mines.
C3_SentenceInvariant ==
    pc = "idle" =>
        \A i \in DOMAIN knowledge :
            /\ 0 <= knowledge[i].count
            /\ knowledge[i].count <= Cardinality(knowledge[i].cells)
            /\ knowledge[i].cells \cap (safes \cup mines) = {}

\* A call has returned with a mine marked and a sentence that still has
\* cells and a positive count.
C3_Witness ==
    /\ pc = "idle"
    /\ mines # {}
    /\ \E i \in Unresolved : knowledge[i].count > 0

\* C4 (as claimed) -- No duplicate sentences: when add_knowledge has
\* returned, no two distinct entries of knowledge are equal.
C4_NoDuplicates ==
    pc = "idle" =>
        \A i, j \in DOMAIN knowledge : i # j => knowledge[i] # knowledge[j]

\* C4 (amended) -- No duplicate insertion: add_if_new does not append a
\* sentence equal to an entry that knowledge holds at that moment, so
\* handing it any stored sentence leaves the AI as it is.  (Entries can
\* still become equal later, when mark_safe / mark_mine shrink them.)
C4_NoDuplicateInsert ==
    \A i \in DOMAIN knowledge : add_if_new(AI, Some(knowledge[i])) = AI

\* A call has returned with two equal entries that still have cells.
C4_Witness ==
    /\ pc = "idle"
    /\ \E i, j \in Unresolved : i # j /\ knowledge[i] = knowledge[j]

C6_ClosureIdempotence ==
    (pc = "idle" /\ ret.op = "add_knowledge") =>
        /\ ~KB_has_changed
        /\ add_inferred_sentence(mark_additional_cells(AI)) = AI

\* A call has returned with a stored sentence strictly inside another one:
\* the extra pass derives their difference again.
C6_Witness ==
    /\ pc = "idle"
    /\ \E i, j \in Unresolved :
           /\ knowledge[i].cells \subseteq knowledge[j].cells
           /\ knowledge[i].cells # knowledge[j].cells

\* The calls of the end-to-end scenario, each with its count.
Scenario == << <<(<<1, 1>>), 1>>, <<(<<0, 1>>), 1>>, <<(<<1, 0>>), 1>> >>

\* C7 -- End-to-end scenario: on a fresh 3 x 3 AI, add_knowledge((1,1),1),
\* add_knowledge((0,1),1), add_knowledge((1,0),1) end with mines = {(0,0)}
\* and safes = the other 8 cells.
C7_EndToEnd ==
    (pc = "idle" /\ calls = Scenario) =>
        /\ mines = {<<0, 0>>}
        /\ safes = all_possible_moves \ {<<0, 0>>}

\* The third call of the scenario has returned.
C7_Witness ==
    /\ pc = "idle"
    /\ calls = Scenario
    /\ Cardinality(safes) = 8

\* A fresh AI, and the AI after add_knowledge has been called, with the
\* board's clue, once on each cell of S in the order CHOOSE takes them.
Fresh == [safes |-> {}, mines |-> {}, knowledge |-> <<>>, KB_has_changed |-> FALSE]

RECURSIVE play(_, _, _)
play(a, b, S) ==
    IF S = {} THEN a
    ELSE LET c == CHOOSE x \in S : TRUE
         IN  play(add_knowledge(a, c, nearby_mines(b, c)), b, S \ {c})

\* C8 -- Order independence: for a fixed board and a fixed set of distinct
\* non-mine cells, safes and mines after one truthful add_knowledge call per
\* cell are the same whatever the order of the calls: the order taken in
\* this run gives what the one fixed order of play gives.
C8_OrderIndependence ==
    (pc = "idle" /\ ret.op = "add_knowledge" /\ Cardinality(Called) = Len(calls)) =>
        LET r == play(Fresh, board, Called)
        IN  /\ safes = r.safes
            /\ mines = r.mines

\* Three calls on distinct cells have returned, and the knowledge list is
\* not the one the fixed order builds: the order of the calls did matter
\* for what is stored.
C8_Witness ==
    /\ pc = "idle"
    /\ Cardinality(Called) = Len(calls)
    /\ Len(calls) >= 3
    /\ knowledge # play(Fresh, board, Called).knowledge
    /\ mines # {}

\* C9 -- Termination of the fixed-point loop: under truthful clues every
\* add_knowledge call that has reached the `while` returns.
C9_Termination == (pc = "loop") ~> (pc = "idle")

\* A call has returned after the loop body ran twice.
C9_Witness ==
    /\ pc = "idle"
    /\ passes >= 2
    /\ ~KB_has_changed

\* C10 -- Safe-move exclusivity: make_safe_move returns None exactly when
\* safes - moves_made is empty, and otherwise a cell of safes that is not in
\* moves_made; under truthful clues that cell is not a mine of the board.
C10_SafeMove ==
    ret.op = "make_safe_move" =>
        /\ ret.move.none <=> (safes \ moves_made = {})
        /\ ~ret.move.none =>
               /\ ret.move.v \in safes
               /\ ret.move.v \notin moves_made
               /\ ret.move.v \notin board

\* make_safe_move has returned a cell, on a board with mines, after moves
\* were made.
C10_Witness ==
    /\ ret.op = "make_safe_move"
    /\ ~ret.move.none
    /\ moves_made # {}
    /\ board # {}

\* The operations that select a move.
MoveOps == {"make_safe_move", "make_random_move"}

\* C11 -- Move selection is read-only: a step in which make_safe_move or
\* make_random_move returns (a cell or None) leaves moves_made, safes,
\* mines, knowledge and the attribute all_possible_moves as they were.
C11_ReadOnly ==
    [][ ret'.op \in MoveOps =>
            UNCHANGED <<moves_made, safes, mines, knowledge, all_moves>> ]_vars

\* make_random_move has returned a cell while the AI holds mines, safes
\* and a stored sentence.
C11_Witness ==
    /\ ret.op = "make_random_move"
    /\ ~ret.move.none
    /\ mines # {}
    /\ safes # {}
    /\ Unresolved # {}

\* C12 -- Random-move eligibility: make_random_move returns None exactly
\* when every cell of the grid is in moves_made or in mines, and otherwise
\* a cell of the grid that is in neither.
C12_RandomMove ==
    ret.op = "make_random_move" =>
        /\ ret.move.none <=> (Cells \subseteq moves_made \cup mines)
        /\ ~ret.move.none =>
               /\ ret.move.v \in Cells
               /\ ret.move.v \notin moves_made
               /\ ret.move.v \notin mines

\* make_random_move has returned None: the one cell played and the cells
\* held as mines cover the grid.
C12_Witness ==
    /\ ret.op = "make_random_move"
    /\ ret.move.none
    /\ moves_made # {}
    /\ Cells \subseteq moves_made \cup mines


\* C13 (as claimed) -- Contradictory marks are rejected: a mark_mine(cell)
\* call for a cell in safes, and a mark_safe(cell) call for a cell in
\* mines, leave safes, mines and every stored sentence unchanged, so safes
\* and mines are still disjoint after the call if they were before it.
C13_ContradictionRejected ==
    [][ ( \/ ret'.op = "mark_mine" /\ ret'.move.v \in safes
          \/ ret'.op = "mark_safe" /\ ret'.move.v \in mines )
        => /\ UNCHANGED <<safes, mines, knowledge>>
           /\ (safes \cap mines = {}) => (safes' \cap mines' = {}) ]_vars


\* add_knowledge(cell, count) is entered with a count out of range: below
\* 0, above the number of neighbours, or below the number of neighbours
\* held as mines.
OutOfRange(cell, count) ==
    \/ count < 0
    \/ count > Cardinality(neighbors(cell))
    \/ count - Cardinality(neighbors(cell) \cap mines) < 0

\* C14 (as claimed) -- Out-of-range counts are rejected: a step that enters
\* add_knowledge with such a count leaves moves_made, safes, mines and
\* knowledge unchanged, and no step leaves in knowledge a sentence with
\* count < 0 or count > |cells|.
C14_OutOfRangeRejected ==
    [][ /\ (pc = "idle" /\ pc' = "loop"
            /\ OutOfRange(calls'[Len(calls')][1], calls'[Len(calls')][2]))
           => UNCHANGED <<moves_made, safes, mines, knowledge>>
        /\ \A i \in DOMAIN knowledge' :
               /\ 0 <= knowledge'[i].count
               /\ knowledge'[i].count <= Cardinality(knowledge'[i].cells) ]_vars


\* The cell and the count of the call that a step enters add_knowledge with.
EnteredCell == calls'[Len(calls')][1]
EnteredCount == calls'[Len(calls')][2]

\* The neighbours of cell that AI a holds neither as safe nor as mine, and
\* the count left once the neighbours a holds as mines are subtracted.
Undetermined(a, cell) == {c \in neighbors(cell) : c \notin a.safes /\ c \notin a.mines}
Remaining(a, cell, count) == count - Cardinality(neighbors(cell) \cap a.mines)

\* The AI after the first n calls of the sequence cs, from a fresh AI.
RECURSIVE replay(_, _)
replay(cs, n) ==
    IF n = 0 THEN Fresh
    ELSE add_knowledge(replay(cs, n - 1), cs[n][1], cs[n][2])

\* C15 -- Zero-count resolution: when add_knowledge(cell, count) is entered
\* and count minus the number of neighbours in mines is 0, then when the
\* call returns every neighbour that was in neither safes nor mines is in
\* safes, and add_new_sentence has appended nothing to knowledge; on a
\* fresh AI with count 0, all neighbours end in safes and knowledge ends
\* empty.
C15_ZeroCount ==
    [][ (pc = "idle" /\ pc' = "loop"
         /\ Remaining(AI, EnteredCell, EnteredCount) = 0)
        => LET fin == while_loop(AI')
           IN  /\ Undetermined(AI, EnteredCell) \subseteq fin.safes
               /\ Len(add_new_sentence(mark_safe(AI, EnteredCell), EnteredCell,
                                       EnteredCount).knowledge) = Len(knowledge)
               /\ (calls = <<>> /\ EnteredCount = 0)
                  => /\ neighbors(EnteredCell) \subseteq fin.safes
                     /\ fin.knowledge = <<>> ]_vars

\* A call has returned that was entered with a positive count, all of it
\* taken up by neighbours already held as mines, and with neighbours still
\* undetermined, next to a stored sentence.
C15_Witness ==
    /\ pc = "idle"
    /\ ret.op = "add_knowledge"
    /\ Len(calls) >= 2
    /\ LET pre == replay(calls, Len(calls) - 1)
           cell == calls[Len(calls)][1]
           count == calls[Len(calls)][2]
       IN  /\ count >= 1
           /\ Remaining(pre, cell, count) = 0
           /\ Undetermined(pre, cell) # {}
           /\ pre.knowledge # <<>>


\* C16 -- Full-count resolution: when add_knowledge(cell, count) is entered
\* and the neighbours in neither safes nor mines are as many as the count
\* left once the neighbours in mines are subtracted (and there is at least
\* one), then when the call returns every one of them is in mines, and
\* add_new_sentence has appended nothing to knowledge.
C16_FullCount ==
    [][ (pc = "idle" /\ pc' = "loop"
         /\ Undetermined(AI, EnteredCell) # {}
         /\ Cardinality(Undetermined(AI, EnteredCell))
                = Remaining(AI, EnteredCell, EnteredCount))
        => LET fin == while_loop(AI')
           IN  /\ Undetermined(AI, EnteredCell) \subseteq fin.mines
               /\ Len(add_new_sentence(mark_safe(AI, EnteredCell), EnteredCell,
                                       EnteredCount).knowledge) = Len(knowledge)
               /\ \A i \in DOMAIN fin.knowledge :
                      i > Len(knowledge) =>
                          fin.knowledge[i].cells \cap Undetermined(AI, EnteredCell) = {} ]_vars

\* A call has returned that was entered with one neighbour already held as
\* a mine, others already safe, and exactly as many undetermined
\* neighbours as mines left to place.
C16_Witness ==
    /\ pc = "idle"
    /\ ret.op = "add_knowledge"
    /\ Len(calls) >= 2
    /\ LET pre == replay(calls, Len(calls) - 1)
           cell == calls[Len(calls)][1]
           count == calls[Len(calls)][2]
       IN  /\ neighbors(cell) \cap pre.mines # {}
           /\ neighbors(cell) \cap pre.safes # {}
           /\ Undetermined(pre, cell) # {}
           /\ Cardinality(Undetermined(pre, cell)) = Remaining(pre, cell, count)


\* Sentence i of knowledge has a cell and its cells are strictly inside
\* those of sentence j.
StrictlyInside(i, j) ==
    /\ knowledge[i].cells # {}
    /\ knowledge[i].cells \subseteq knowledge[j].cells
    /\ knowledge[i].cells # knowledge[j].cells

\* C17 -- Closure under the subset rule: when add_knowledge has returned
\* (truthful clues), for every two stored sentences A and B with A's cells
\* (at least one) strictly inside B's, knowledge holds the sentence with
\* cells B.cells - A.cells and count B.count - A.count.
C17_SubsetClosure ==
    pc = "idle" =>
        \A i, j \in DOMAIN knowledge :
            StrictlyInside(i, j) =>
                \E k \in DOMAIN knowledge :
                    knowledge[k] = Sentence(knowledge[j].cells \ knowledge[i].cells,
                                            knowledge[j].count - knowledge[i].count)

\* A call has returned with three stored sentences that still have cells,
\* the last of them the difference of the other two.
C17_Witness ==
    /\ pc = "idle"
    /\ Len(calls) >= 2
    /\ \E i, j, k \in Unresolved :
           /\ StrictlyInside(i, j)
           /\ k > j /\ k > i
           /\ knowledge[k] = Sentence(knowledge[j].cells \ knowledge[i].cells,
                                      knowledge[j].count - knowledge[i].count)


\* C18 -- Local resolution is exhaustive at return: when add_knowledge has
\* returned (truthful clues), no stored sentence that has a cell has
\* count = 0 or count = |cells|.
C18_LocalResolution ==
    pc = "idle" =>
        \A i \in Unresolved :
            /\ knowledge[i].count # 0
            /\ knowledge[i].count # Cardinality(knowledge[i].cells)

\* A call has returned after the loop resolved stored sentences: an entry
\* has been emptied, cells were marked as mines and as safe beyond the
\* cells played, and another entry still has cells.
C18_Witness ==
    /\ pc = "idle"
    /\ passes >= 1
    /\ \E i \in DOMAIN knowledge : knowledge[i] = empty
    /\ mines # {}
    /\ safes \ moves_made # {}
    /\ Unresolved # {}


\* C19 (as claimed) -- Played cells are safe: when an add_knowledge call
\* has returned, moves_made is a subset of safes, for any sequence of
\* add_knowledge calls on cells of the grid, whatever the counts, also when
\* a call is made on a cell the AI holds as a mine.
C19_PlayedAreSafe ==
    (pc = "idle" /\ \A i \in DOMAIN calls : calls[i][1] \in Cells) =>
        moves_made \subseteq safes


\* C20 -- Monotonic knowledge: in every step of every sequence of
\* add_knowledge calls (whatever the cells and counts), moves_made, safes
\* and mines only grow and the cells of every stored sentence only shrink.
C20_Monotonic ==
    [][ /\ moves_made \subseteq moves_made'
        /\ safes \subseteq safes'
        /\ mines \subseteq mines'
        /\ \A i \in DOMAIN knowledge :
               /\ i \in DOMAIN knowledge'
               /\ knowledge'[i].cells \subseteq knowledge[i].cells ]_vars

\* Two calls have returned: a mine was marked, cells were marked safe
\* beyond those played, and a stored sentence has lost all its cells.
C20_Witness ==
    /\ pc = "idle"
    /\ Len(calls) >= 2
    /\ mines # {}
    /\ safes \ moves_made # {}
    /\ \E i \in DOMAIN knowledge : knowledge[i].cells = {}

=============================================================================
